---- MODULE Spec2Model ----
(***************************************************************************)
(* A model of igntcbb: the GenConfig register-map parser                   *)
(* (ParseGenConfig.py) and the register decoder / polling facade           *)
(* (PollIGNTC.py).                                                         *)
(*                                                                         *)
(* Python strings are TLA+ strings; s[i:j] is SubSeq(s, i+1, j).  Python   *)
(* indices (line_num) are kept 0-based and converted where a sequence is   *)
(* indexed.  A Python value whose type varies is a tagged record: None,    *)
(* PyStr(s), PyInt(i), PyFloat(n, e) (the number n * 10^-e) or PyList(l).  *)
(***************************************************************************)
EXTENDS Integers, Sequences, FiniteSets, TLC

VARIABLES
    contents,        \* parse: the lines of the file (f.readlines())
    line_num,        \* parse: the 0-based index of the line being scanned
    registers,       \* parse: the list of parsed register dictionaries
    raw,             \* history: `registers` as handed to reparse_min_max_values
    pc,              \* position of the running call
    exc,             \* the exception the last call raised, or "none"
    self_registers,  \* facade: group -> list of Register objects
    groups,          \* facade: sorted(self.registers.keys())
    sent,            \* transport: the requests the last call sent, in order
    attempted,       \* history: descriptors read in the running batch poll
    pos,             \* query_all_parameters: <<group index, register index>>
    last,            \* history: the last facade call, its inputs and result
    is_py3           \* whether the interpreter is Python 3 (else Python 2)

vars == <<contents, line_num, registers, raw, pc, exc,
          self_registers, groups, sent, attempted, pos, last, is_py3>>

pollVars  == <<self_registers, groups, sent, attempted, pos, last, is_py3>>

None == [none |-> TRUE]
PyStr(s) == [s |-> s]
PyInt(i) == [i |-> i]
PyFloat(n, e) == [n |-> n, e |-> e]
PyList(l) == [l |-> l]
IsNone(v) == DOMAIN v = {"none"}
IsStr(v) == DOMAIN v = {"s"}
IsInt(v) == DOMAIN v = {"i"}
IsFloat(v) == DOMAIN v = {"n", "e"}
IsList(v) == DOMAIN v = {"l"}

-----------------------------------------------------------------------------
(* Bounds of the model.                                                    *)

MaxLines == 5        \* longest file drawn for the scanner
MaxRegs == 3         \* longest descriptor list drawn for the resolver

-----------------------------------------------------------------------------
(* Python string primitives.                                               *)

Char(s, i) == SubSeq(s, i, i)

Digits == "0123456789"
Uppers == "ABCDEFGHIJKLMNOPQRSTUVWXYZ"
Lowers == "abcdefghijklmnopqrstuvwxyz"

IndexIn(alphabet, c) ==
    IF \E i \in 1..Len(alphabet) : Char(alphabet, i) = c
    THEN CHOOSE i \in 1..Len(alphabet) : Char(alphabet, i) = c
    ELSE 0

\* sub in s
StrIn(sub, s) ==
    \E i \in 1..(Len(s) - Len(sub) + 1) : SubSeq(s, i, i + Len(sub) - 1) = sub

\* s.replace(c, '') for a one-character c
RECURSIVE StrRemove(_, _)
StrRemove(s, c) ==
    IF Len(s) = 0 THEN ""
    ELSE IF Len(s) = 1 THEN (IF s = c THEN "" ELSE s)
    ELSE LET half == Len(s) \div 2
         IN  StrRemove(SubSeq(s, 1, half), c) \o StrRemove(SubSeq(s, half + 1, Len(s)), c)

IsSpace(c) == c \in {" ", "\t", "\n", "\r", "\f"}

RECURSIVE FirstNonSpace(_, _)
FirstNonSpace(s, i) ==
    IF i > Len(s) THEN i
    ELSE IF IsSpace(Char(s, i)) THEN FirstNonSpace(s, i + 1) ELSE i

RECURSIVE LastNonSpace(_, _)
LastNonSpace(s, i) ==
    IF i < 1 THEN i
    ELSE IF IsSpace(Char(s, i)) THEN LastNonSpace(s, i - 1) ELSE i

\* s.strip()
Strip(s) == SubSeq(s, FirstNonSpace(s, 1), LastNonSpace(s, Len(s)))

\* s[a:b] and s[a:] with 0-based Python bounds, clipped to the string
Slice(s, a, b) ==
    LET hi == IF b < Len(s) THEN b ELSE Len(s)
    IN  IF a >= hi THEN "" ELSE SubSeq(s, a + 1, hi)
SliceFrom(s, a) == Slice(s, a, Len(s))

\* s.lower()
LowerChar(c) ==
    LET k == IndexIn(Uppers, c) IN IF k = 0 THEN c ELSE Char(Lowers, k)
RECURSIVE StrLower(_)
StrLower(s) ==
    IF Len(s) = 0 THEN ""
    ELSE IF Len(s) = 1 THEN LowerChar(s)
    ELSE LET half == Len(s) \div 2
         IN  StrLower(SubSeq(s, 1, half)) \o StrLower(SubSeq(s, half + 1, Len(s)))

IsDigitStr(s) == s # "" /\ \A i \in 1..Len(s) : IndexIn(Digits, Char(s, i)) # 0

RECURSIVE DigitsValue(_)
DigitsValue(s) ==
    IF s = "" THEN 0
    ELSE 10 * DigitsValue(SubSeq(s, 1, Len(s) - 1))
         + (IndexIn(Digits, Char(s, Len(s))) - 1)

\* int(s): surrounding whitespace, an optional sign, decimal digits.
\* IntRaises(s) is the ValueError int(s) raises for anything else.
IntBody(s) ==
    IF Strip(s) # "" /\ Head(Strip(s)) \in {"+", "-"} THEN Tail(Strip(s)) ELSE Strip(s)
IntRaises(s) == ~IsDigitStr(IntBody(s))
IntOf(s) ==
    IF Strip(s) # "" /\ Head(Strip(s)) = "-" THEN 0 - DigitsValue(IntBody(s))
    ELSE DigitsValue(IntBody(s))

-----------------------------------------------------------------------------
(* ParseGenConfig.parse_register                                           *)

\* one column field, stripped: line[a:b].strip() (lines 173-182)
Column(line, a, b) == Strip(Slice(line, a, b))

\* the ValueError of one of the int() conversions (lines 185-195)
ParseRegisterRaises(line) ==
    \/ IntRaises(Slice(Column(line, 0, 17), 0, 5))
    \/ IntRaises(Column(line, 17, 26))
    \/ IntRaises(Column(line, 57, 61))
    \/ (Column(line, 61, 64) # "-" /\ IntRaises(Column(line, 61, 64)))

\* the datatype lowercased whether or not it carries '#'
NormalizeDatatypeAlways(datatype) == StrLower(StrRemove(datatype, "#"))

\* lines 189-190: only a datatype carrying '#' is lowercased
NormalizeDatatype(datatype) ==
    IF StrIn("#", datatype) THEN StrLower(StrRemove(datatype, "#")) ELSE datatype

\* the dictionary of lines 201-211
ParseRegister(line) ==
    [register |-> IntOf(Slice(Column(line, 0, 17), 0, 5)),
     comm_obj |-> IntOf(Column(line, 17, 26)),
     name     |-> Column(line, 26, 41),
     units    |-> IF Column(line, 41, 46) = "-" THEN "" ELSE Column(line, 41, 46),
     datatype |-> NormalizeDatatype(Column(line, 46, 57)),
     points   |-> IntOf(Column(line, 57, 61)),
     decimals |-> IF Column(line, 61, 64) = "-" THEN None
                  ELSE PyInt(IntOf(Column(line, 61, 64))),
     min      |-> IF Column(line, 64, 71) = "-" THEN None
                  ELSE PyStr(Column(line, 64, 71)),
     max      |-> IF Column(line, 71, 78) = "-" THEN None
                  ELSE PyStr(Column(line, 71, 78)),
     group    |-> Strip(SliceFrom(line, 78))]

-----------------------------------------------------------------------------
(* ParseGenConfig.reparse_min_max_values                                   *)

\* comm_objs.index(x): the first position holding x, 0 for ValueError
ListIndex(regs, x) ==
    IF \E j \in 1..Len(regs) : regs[j].comm_obj = x
    THEN CHOOSE j \in 1..Len(regs) :
             /\ regs[j].comm_obj = x
             /\ \A k \in 1..(j - 1) : regs[k].comm_obj # x
    ELSE 0

\* ResolveSide reading the referenced register's bound of the other side
ResolveSideOtherSide(st, i, side) ==
    LET bound == st.regs[i][side]
        other == IF side = "max" THEN "min" ELSE "max"
    IN  IF st.raised \/ IsNone(bound) \/ ~StrIn("*", bound.s) THEN st
        ELSE IF IntRaises(StrRemove(bound.s, "*"))
             THEN [st EXCEPT !.raised = TRUE]
             ELSE LET comm_2_find == IntOf(StrRemove(bound.s, "*"))
                      ind == ListIndex(st.regs, comm_2_find)
                  IN  IF ind = 0
                      THEN [st EXCEPT !.regs[i][side] = None]
                      ELSE [st EXCEPT !.regs[i][side] = st.regs[ind][other]]

\* One side ("max" or "min") of one register, lines 237-244 / 246-253.
\* st is [regs, raised]; the list is updated in place, so the bound that is
\* copied is whatever the referenced register holds at this moment.
ResolveSide(st, i, side) ==
    LET bound == st.regs[i][side]
    IN  IF st.raised \/ IsNone(bound) \/ ~StrIn("*", bound.s) THEN st
        ELSE IF IntRaises(StrRemove(bound.s, "*"))
             THEN [st EXCEPT !.raised = TRUE]
             ELSE LET comm_2_find == IntOf(StrRemove(bound.s, "*"))
                      ind == ListIndex(st.regs, comm_2_find)
                  IN  IF ind = 0
                      THEN [st EXCEPT !.regs[i][side] = None]
                      ELSE [st EXCEPT !.regs[i][side] = st.regs[ind][side]]

\* the first loop, lines 235-253: for each register, max and then min
RECURSIVE ResolveLoop(_, _)
ResolveLoop(st, i) ==
    IF i > Len(st.regs) \/ st.raised THEN st
    ELSE ResolveLoop(ResolveSide(ResolveSide(st, i, "max"), i, "min"), i + 1)

\* One int() of the second loop, lines 257-260.
ConvertSide(st, i, side) ==
    LET bound == st.regs[i][side]
    IN  IF st.raised \/ IsNone(bound) THEN st
        ELSE IF IntRaises(bound.s) THEN [st EXCEPT !.raised = TRUE]
        ELSE [st EXCEPT !.regs[i][side] = PyInt(IntOf(bound.s))]

\* the second loop, lines 256-260: for each register, min and then max
RECURSIVE ConvertLoop(_, _)
ConvertLoop(st, i) ==
    IF i > Len(st.regs) \/ st.raised THEN st
    ELSE ConvertLoop(ConvertSide(ConvertSide(st, i, "min"), i, "max"), i + 1)

\* [regs, raised]: the list as the call leaves it, and whether it raised
\* ValueError
ReparseMinMaxValues(regs) ==
    ConvertLoop(ResolveLoop([regs |-> regs, raised |-> FALSE], 1), 1)

-----------------------------------------------------------------------------
(* Lines of a register map, laid out on the columns parse_register cuts.   *)

RECURSIVE Pad(_, _)
Pad(s, width) == IF Len(s) >= width THEN s ELSE Pad(s \o " ", width)

Row(register, comm_obj, name, units, datatype, points, decimals, min, max, group) ==
    Pad(register, 17) \o Pad(comm_obj, 9) \o Pad(name, 15) \o Pad(units, 5)
    \o Pad(datatype, 11) \o Pad(points, 4) \o Pad(decimals, 3) \o Pad(min, 7)
    \o Pad(max, 7) \o group

\* the two lines quoted in parse_register's comment
HeaderLine ==
    "Register(s)      Com.Obj. Name           Dim  Type       Len Dec   Min    Max Group\r\n"
ExampleLine ==
    "40003            8235     BIN                 Binary#1    2   -      -      - Bin inputs CU\n"
SpeedLine ==
    Row("40010", "10", "Speed", "RPM", "Integer", "1", "1", "0", "*8235", "Engine") \o "\r\n"

\* the lines a scanned file is drawn from
ScanLines == {HeaderLine, ExampleLine, SpeedLine, "\n", "\r\n"}

RECURSIVE SeqsUpTo(_, _)
SeqsUpTo(S, n) ==
    IF n = 0 THEN {<<>>}
    ELSE LET shorter == SeqsUpTo(S, n - 1)
         IN  shorter \cup {Append(q, x) : q \in {t \in shorter : Len(t) = n - 1}, x \in S}

-----------------------------------------------------------------------------
(* ParseGenConfig.parse: the register table (lines 86-104).  The phases    *)
(* after it (the skipped protection block and the custom types, lines      *)
(* 106-146) never touch `registers`; the model stops at pc = "types".      *)

\* the scan starting on the second header line
ScanStartOnHeader == 2 - 1

\* line 86: line_num = 2
ScanStart == 2

\* contents[line_num].replace('\r','') == '\n'
IsBlankLine(line) == StrRemove(line, "\r") = "\n"

NoPoll ==
    /\ self_registers = <<>>
    /\ groups = <<>>
    /\ sent = <<>>
    /\ attempted = <<>>
    /\ pos = <<0, 0>>
    /\ last = [op |-> "none"]
    /\ is_py3 = TRUE

InitScan ==
    /\ contents \in SeqsUpTo(ScanLines, MaxLines)
    /\ line_num = ScanStart
    /\ registers = <<>>
    /\ raw = <<>>
    /\ pc = "scan"
    /\ exc = "none"
    /\ NoPoll

\* contents[line_num] past the end of the list
ScanIndexError ==
    /\ pc = "scan"
    /\ line_num >= Len(contents)
    /\ pc' = "raised"
    /\ exc' = "IndexError"
    /\ UNCHANGED <<contents, line_num, registers, raw>>
    /\ UNCHANGED pollVars

\* the break of lines 90-91
ScanBlank ==
    /\ pc = "scan"
    /\ line_num < Len(contents)
    /\ IsBlankLine(contents[line_num + 1])
    /\ pc' = "reparse"
    /\ raw' = registers
    /\ UNCHANGED <<contents, line_num, registers, exc>>
    /\ UNCHANGED pollVars

\* parse_register raises ValueError out of parse
ScanValueError ==
    /\ pc = "scan"
    /\ line_num < Len(contents)
    /\ ~IsBlankLine(contents[line_num + 1])
    /\ ParseRegisterRaises(contents[line_num + 1])
    /\ pc' = "raised"
    /\ exc' = "ValueError"
    /\ UNCHANGED <<contents, line_num, registers, raw>>
    /\ UNCHANGED pollVars

\* lines 93-100; parse_register never returns None, so the branch of line 96
\* is never taken
ScanRow ==
    /\ pc = "scan"
    /\ line_num < Len(contents)
    /\ ~IsBlankLine(contents[line_num + 1])
    /\ ~ParseRegisterRaises(contents[line_num + 1])
    /\ registers' = Append(registers, ParseRegister(contents[line_num + 1]))
    /\ line_num' = line_num + 1
    /\ UNCHANGED <<contents, raw, pc, exc>>
    /\ UNCHANGED pollVars

\* line 104: registers = self.reparse_min_max_values(registers)
Reparse ==
    /\ pc = "reparse"
    /\ \E r \in {ReparseMinMaxValues(registers)} :
           /\ registers' = r.regs
           /\ pc' = IF r.raised THEN "raised" ELSE "types"
           /\ exc' = IF r.raised THEN "ValueError" ELSE exc
    /\ UNCHANGED <<contents, line_num, raw>>
    /\ UNCHANGED pollVars

NextScan == ScanIndexError \/ ScanBlank \/ ScanValueError \/ ScanRow \/ Reparse

SpecScan == InitScan /\ [][NextScan]_vars

-----------------------------------------------------------------------------
(* reparse_min_max_values on drawn descriptor lists.                       *)

Descriptor(comm_obj, min, max) ==
    [register |-> 40001, comm_obj |-> comm_obj, name |-> "R", units |-> "",
     datatype |-> "Integer", points |-> 1, decimals |-> None,
     min |-> min, max |-> max, group |-> "G"]

ResolveCommObjs == {1, 2}
ResolveMins == {PyStr("3"), PyStr("*1")}
ResolveMaxs == {None, PyStr("7"), PyStr("*1"), PyStr("*2")}

ResolveDescriptors ==
    {Descriptor(c, mn, mx) : c \in ResolveCommObjs, mn \in ResolveMins, mx \in ResolveMaxs}

InitResolve ==
    /\ registers \in (SeqsUpTo(ResolveDescriptors, MaxRegs) \ {<<>>})
    /\ raw = registers
    /\ contents = <<>>
    /\ line_num = 0
    /\ pc = "reparse"
    /\ exc = "none"
    /\ NoPoll

NextResolve == Reparse

SpecResolve == InitResolve /\ [][NextResolve]_vars

-----------------------------------------------------------------------------
(* Python numbers and the operators the decoder applies to values.         *)
(* PyFloat(n, e) stands for the float nearest to n * 10^-e; rounding of    *)
(* binary floating point is not modelled.  PyBytes(b) is the text          *)
(* decode_string returns, as its sequence of character codes.              *)

PyBytes(b) == [b |-> b]
IsBytes(v) == DOMAIN v = {"b"}
IsNumber(v) == IsInt(v) \/ IsFloat(v)

RECURSIVE Pow10(_)
Pow10(k) == IF k <= 0 THEN 1 ELSE 10 * Pow10(k - 1)

Mantissa(v) == IF IsInt(v) THEN v.i ELSE v.n
Exponent(v) == IF IsInt(v) THEN 0 ELSE v.e

\* a < b for two numbers
NumLess(a, b) == Mantissa(a) * Pow10(Exponent(b)) < Mantissa(b) * Pow10(Exponent(a))

RECURSIVE SeqRepeat(_, _, _)
SeqRepeat(unit, empty, k) == IF k <= 0 THEN empty ELSE unit \o SeqRepeat(unit, empty, k - 1)

\* value * scaler; [v, raised]: the product, or the TypeError of a sequence
\* (or None) multiplied by a float
Multiply(value, scaler) ==
    IF IsInt(scaler)
    THEN IF IsInt(value) THEN [v |-> PyInt(value.i * scaler.i), raised |-> FALSE]
         ELSE IF IsFloat(value) THEN [v |-> PyFloat(value.n * scaler.i, value.e), raised |-> FALSE]
         ELSE IF IsStr(value) THEN [v |-> PyStr(SeqRepeat(value.s, "", scaler.i)), raised |-> FALSE]
         ELSE IF IsBytes(value) THEN [v |-> PyBytes(SeqRepeat(value.b, <<>>, scaler.i)), raised |-> FALSE]
         ELSE IF IsList(value) THEN [v |-> PyList(SeqRepeat(value.l, <<>>, scaler.i)), raised |-> FALSE]
         ELSE [v |-> value, raised |-> TRUE]
    ELSE IF IsInt(value) THEN [v |-> PyFloat(value.i * scaler.n, scaler.e), raised |-> FALSE]
         ELSE IF IsFloat(value) THEN [v |-> PyFloat(value.n * scaler.n, value.e + scaler.e), raised |-> FALSE]
         ELSE [v |-> value, raised |-> TRUE]

\* str(n) for an integer
RECURSIVE NatToStr(_)
NatToStr(n) ==
    IF n < 10 THEN Char(Digits, n + 1)
    ELSE NatToStr(n \div 10) \o Char(Digits, (n % 10) + 1)
IntToStr(n) == IF n < 0 THEN "-" \o NatToStr(0 - n) ELSE NatToStr(n)

\* s.zfill(width)
RECURSIVE ZFill(_, _)
ZFill(s, width) == IF Len(s) >= width THEN s ELSE ZFill("0" \o s, width)

\* bin(n)[2:] and hex(n)[2:]
RECURSIVE BinDigits(_)
BinDigits(n) ==
    IF n < 2 THEN Char(Digits, n + 1)
    ELSE BinDigits(n \div 2) \o Char(Digits, (n % 2) + 1)

HexAlphabet == "0123456789abcdef"
RECURSIVE HexDigits(_)
HexDigits(n) ==
    IF n < 16 THEN Char(HexAlphabet, n + 1)
    ELSE HexDigits(n \div 16) \o Char(HexAlphabet, (n % 16) + 1)

\* sep.join(lines)
RECURSIVE Join(_, _)
Join(lines, sep) ==
    IF Len(lines) = 0 THEN ""
    ELSE IF Len(lines) = 1 THEN lines[1]
    ELSE lines[1] \o sep \o Join(Tail(lines), sep)

-----------------------------------------------------------------------------
(* Register (PollIGNTC.py, lines 53-141).                                  *)

\* Register.__init__, lines 57-69; typemap is None or [m |-> value map]
Register(register, points, description, units, datatype, scaler, min, max, typemap) ==
    [register |-> register,
     address  |-> register - 40000 - 1,
     points   |-> points,
     desc     |-> description,
     units    |-> units,
     datatype |-> datatype,
     value    |-> None,
     min      |-> min,
     max      |-> max,
     scaler   |-> scaler,
     format   |-> None,
     typemap  |-> typemap]

\* BinaryPayloadDecoder.fromRegisters(data, byteorder=Endian.Big): the bytes
\* of the words, most significant byte first
RECURSIVE Payload(_)
Payload(data) ==
    IF Len(data) = 0 THEN <<>>
    ELSE <<Head(data) \div 256, Head(data) % 256>> \o Payload(Tail(data))

Uint16(bytes, ptr) == bytes[ptr + 1] * 256 + bytes[ptr + 2]
Int16(bytes, ptr) ==
    IF Uint16(bytes, ptr) >= 32768 THEN Uint16(bytes, ptr) - 65536 ELSE Uint16(bytes, ptr)
Uint32(bytes, ptr) == Uint16(bytes, ptr) * 65536 + Uint16(bytes, ptr + 2)
Int32(bytes, ptr) == Int16(bytes, ptr) * 65536 + Uint16(bytes, ptr + 2)

\* decode_string(size): the next size bytes, fewer at the end of the payload
DecodeString(bytes, size) == SubSeq(bytes, 1, IF size < Len(bytes) THEN size ELSE Len(bytes))

\* value.strip('\x00')
RECURSIVE StripNul(_)
StripNul(b) ==
    IF Len(b) = 0 THEN b
    ELSE IF Head(b) = 0 THEN StripNul(Tail(b))
    ELSE IF b[Len(b)] = 0 THEN StripNul(SubSeq(b, 1, Len(b) - 1))
    ELSE b

\* decode_bits(): the eight bits of the next byte, least significant first
DecodeBits(bytes) == [k \in 1..8 |-> (bytes[1] \div (2 ^ (k - 1))) % 2 = 1]

\* The rules of lines 78-99.  [set, v, ptr, exc]: whether the local `value`
\* was assigned, its value, the bytes the decoder has consumed, and the
\* exception raised ("none" if none).  Under Python 3 decode_string returns
\* bytes and bytes.strip('\x00') raises TypeError.  A read returns `points`
\* words, so the decoder never runs out of bytes here.
DecodeRules(datatype, length, data, py3) ==
    LET bytes == Payload(data)
        unset == [set |-> FALSE, v |-> None, ptr |-> 0, exc |-> "none"]
    IN  IF datatype = "Integer" /\ length \in {1, 2}
        THEN [set |-> TRUE, v |-> PyInt(Int16(bytes, 0)), ptr |-> 2, exc |-> "none"]
        ELSE IF datatype = "Integer" /\ length = 4
        THEN [set |-> TRUE, v |-> PyInt(Int32(bytes, 0)), ptr |-> 4, exc |-> "none"]
        ELSE IF datatype = "Unsigned" /\ length \in {1, 2}
        THEN [set |-> TRUE, v |-> PyInt(Uint16(bytes, 0)), ptr |-> 2, exc |-> "none"]
        ELSE IF datatype = "Unsigned" /\ length = 4
        THEN [set |-> TRUE, v |-> PyInt(Uint32(bytes, 0)), ptr |-> 4, exc |-> "none"]
        ELSE IF datatype = "String0"
        THEN IF py3 THEN [unset EXCEPT !.exc = "TypeError"]
             ELSE [set |-> TRUE, v |-> PyBytes(StripNul(DecodeString(bytes, length * 2))),
                   ptr |-> length * 2, exc |-> "none"]
        ELSE IF datatype = "Char"
        THEN IF py3 THEN [unset EXCEPT !.exc = "TypeError"]
             ELSE [set |-> TRUE, v |-> PyBytes(StripNul(DecodeString(bytes, 8))),
                   ptr |-> 8, exc |-> "none"]
        ELSE IF datatype = "Binary"
        THEN [set |-> TRUE, v |-> PyList(DecodeBits(bytes)), ptr |-> 1, exc |-> "none"]
        ELSE IF datatype \in {"Time", "Date"}
        THEN [set |-> TRUE,
              v |-> PyList([k \in 1..Len(data) |-> ZFill(HexDigits(data[k]), 6)]),
              ptr |-> 0, exc |-> "none"]
        ELSE unset

\* the labelled list line that looks the key up with typemap.get(key)
ListOverlayGet(typemap, key) ==
    [v |-> PyStr(IntToStr(key) \o ": "
                 \o (IF key \in DOMAIN typemap THEN typemap[key] ELSE "None")),
     exc |-> "none"]

\* lines 114-116: '%s: %s' % (key, self.typemap[key]); [v, exc]
ListOverlay(typemap, key) ==
    IF key \notin DOMAIN typemap THEN [v |-> None, exc |-> "KeyError"]
    ELSE [v |-> PyStr(IntToStr(key) \o ": " \o typemap[key]), exc |-> "none"]

\* lines 105-112: one line per i in range(len(self.typemap)); [v, exc]
BinaryOverlay(typemap, decoded) ==
    LET binary == ZFill(BinDigits(decoded), 16)
        num_bits == Cardinality(DOMAIN typemap)
    IN  IF \E i \in 0..(num_bits - 1) : i \notin DOMAIN typemap
        THEN [v |-> None, exc |-> "KeyError"]
        ELSE IF num_bits > Len(binary)
        THEN [v |-> None, exc |-> "IndexError"]
        ELSE [v |-> PyStr(Join([k \in 1..num_bits |->
                                   typemap[k - 1] \o ": " \o Char(binary, Len(binary) - (k - 1))],
                               ", ")),
              exc |-> "none"]

\* Lines 101-118: what self.params['value'] holds afterwards, and the
\* exception raised.  The two custom-type tests are separate ifs.
StoreValue(reg, data, rules) ==
    IF IsNone(reg.typemap)
    THEN IF rules.set THEN [v |-> rules.v, exc |-> "none"]
         ELSE [v |-> reg.value, exc |-> "UnboundLocalError"]
    ELSE IF rules.ptr + 2 > Len(Payload(data))
    THEN [v |-> reg.value, exc |-> "struct.error"]
    ELSE LET decoded == Uint16(Payload(data), rules.ptr)
             bin == IF StrIn("binary", reg.datatype)
                    THEN BinaryOverlay(reg.typemap.m, decoded)
                    ELSE [v |-> reg.value, exc |-> "none"]
         IN  IF bin.exc # "none" THEN [v |-> reg.value, exc |-> bin.exc]
             ELSE IF StrIn("list", reg.datatype)
             THEN IF ListOverlay(reg.typemap.m, decoded).exc # "none"
                  THEN [v |-> bin.v, exc |-> ListOverlay(reg.typemap.m, decoded).exc]
                  ELSE ListOverlay(reg.typemap.m, decoded)
             ELSE bin

\* Register.decode (lines 71-121): [reg, exc], the register afterwards and the
\* exception the call raised ("none" if it returned)
Decode(reg, data, py3) ==
    LET rules == DecodeRules(reg.datatype, reg.points, data, py3)
    IN  IF rules.exc # "none" THEN [reg |-> reg, exc |-> rules.exc]
        ELSE LET stored == StoreValue(reg, data, rules)
             IN  IF stored.exc # "none"
                 THEN [reg |-> [reg EXCEPT !.value = stored.v], exc |-> stored.exc]
                 ELSE IF IsNone(reg.scaler)
                 THEN [reg |-> [reg EXCEPT !.value = stored.v], exc |-> "none"]
                 ELSE IF Multiply(stored.v, reg.scaler).raised
                 THEN [reg |-> [reg EXCEPT !.value = stored.v], exc |-> "TypeError"]
                 ELSE [reg |-> [reg EXCEPT !.value = Multiply(stored.v, reg.scaler).v],
                       exc |-> "none"]

\* validate without the early return for list datatypes
ValidateNoListHack(reg, py3) ==
    IF IsNone(reg.value) THEN "None"
    ELSE IF ~IsNumber(reg.value) /\ (~IsNone(reg.min) \/ ~IsNone(reg.max))
    THEN IF py3 THEN "TypeError" ELSE IF ~IsNone(reg.max) THEN "False" ELSE "True"
    ELSE IF ~IsNone(reg.min) /\ NumLess(reg.value, reg.min) THEN "False"
    ELSE IF ~IsNone(reg.max) /\ NumLess(reg.max, reg.value) THEN "False"
    ELSE "True"

\* Register.validate (lines 124-141): "None", "True" or "False", or the
\* "TypeError" of comparing a sequence with a number.  Python 2 orders every
\* number before every sequence instead of raising.
Validate(reg, py3) ==
    IF IsNone(reg.value) THEN "None"
    ELSE IF StrIn("list", reg.datatype) THEN "True"
    ELSE IF ~IsNumber(reg.value) /\ (~IsNone(reg.min) \/ ~IsNone(reg.max))
    THEN IF py3 THEN "TypeError" ELSE IF ~IsNone(reg.max) THEN "False" ELSE "True"
    ELSE IF ~IsNone(reg.min) /\ NumLess(reg.value, reg.min) THEN "False"
    ELSE IF ~IsNone(reg.max) /\ NumLess(reg.max, reg.value) THEN "False"
    ELSE "True"

-----------------------------------------------------------------------------
(* IGNTCModbusReadRegisters.__init__ (lines 153-204).                      *)

\* 10**(-decimals): a float for a positive count of decimals, else an int
Scalar(decimals) ==
    IF IsNone(decimals) THEN None
    ELSE IF decimals.i > 0 THEN PyFloat(1, decimals.i)
    ELSE PyInt(Pow10(0 - decimals.i))

\* lines 180-184: bound *= scalar when both are present
ScaledBound(bound, scalar) ==
    IF IsNone(scalar) \/ IsNone(bound) THEN bound ELSE Multiply(bound, scalar).v

\* lines 164-193: the Register built from one parsed register
NewRegister(parsed_register, custom_types) ==
    Register(parsed_register.register, parsed_register.points, parsed_register.name,
             parsed_register.units, parsed_register.datatype,
             Scalar(parsed_register.decimals),
             ScaledBound(parsed_register.min, Scalar(parsed_register.decimals)),
             ScaledBound(parsed_register.max, Scalar(parsed_register.decimals)),
             IF parsed_register.datatype \in DOMAIN custom_types
             THEN [m |-> custom_types[parsed_register.datatype]] ELSE None)

\* lines 162-195: the registers of each group, in scan order
GroupRegisters(register_list, custom_types) ==
    [group \in {register_list[k].group : k \in 1..Len(register_list)} |->
        LET RECURSIVE Collect(_)
            Collect(k) ==
                IF k > Len(register_list) THEN <<>>
                ELSE IF register_list[k].group = group
                THEN <<NewRegister(register_list[k], custom_types)>> \o Collect(k + 1)
                ELSE Collect(k + 1)
        IN  Collect(1)]

\* the order of Python strings: by character code, a prefix first; Ascii
\* lists, in code order, the characters the group names are written with
Ascii == " -.0123456789ABCDEFGHIJKLMNOPQRSTUVWXYZ_abcdefghijklmnopqrstuvwxyz"
RECURSIVE StrLess(_, _)
StrLess(a, b) ==
    IF b = "" THEN FALSE
    ELSE IF a = "" THEN TRUE
    ELSE IF Head(a) = Head(b) THEN StrLess(Tail(a), Tail(b))
    ELSE IndexIn(Ascii, Head(a)) < IndexIn(Ascii, Head(b))

\* line 197: sorted(self.registers.keys())
RECURSIVE Sorted(_)
Sorted(keys) ==
    IF keys = {} THEN <<>>
    ELSE LET first == CHOOSE k \in keys : \A x \in keys \ {k} : StrLess(k, x)
         IN  <<first>> \o Sorted(keys \ {first})

-----------------------------------------------------------------------------
(* IGNTCModbusReadRegisters.read_registers (lines 259-288).                *)

max_num_tries == 50

\* The loop of lines 268-277, with `fails` connection attempts still to fail:
\* TRUE when the socket is open at the end, FALSE for the return of line 274.
RECURSIVE ConnectLoop(_, _)
ConnectLoop(num_tries, fails) ==
    IF fails = 0 THEN TRUE
    ELSE IF num_tries >= max_num_tries THEN FALSE
    ELSE ConnectLoop(num_tries + 1, fails - 1)

\* line 50
_TCP_ACCESS == 46339 - 40000 - 1

\* a request on the wire: the client method, its address and its value
\* (write_register) or count (read_holding_registers)
Request(fn, address, arg) == [fn |-> fn, address |-> address, arg |-> arg]

\* read_registers writing the access code to the polled address
ReadRegistersWritesAddr(addr, num_registers, fails, reply) ==
    IF ~ConnectLoop(1, fails) THEN [data |-> None, sent |-> <<>>]
    ELSE [data |-> reply,
          sent |-> <<Request("write_register", addr, 0),
                     Request("read_holding_registers", addr, num_registers)>>]

\* [data, sent]: the words returned (None for either failure) and the
\* requests put on the wire, in order (lines 280-281).  reply is the device's
\* answer to the read: None for an error response, else PyList(words).
ReadRegisters(addr, num_registers, fails, reply) ==
    IF ~ConnectLoop(1, fails) THEN [data |-> None, sent |-> <<>>]
    ELSE [data |-> reply,
          sent |-> <<Request("write_register", _TCP_ACCESS, 0),
                     Request("read_holding_registers", addr, num_registers)>>]

-----------------------------------------------------------------------------
(* IGNTCModbusReadRegisters.query_parameter and query_all_parameters.      *)

\* param_names.index(param), 0 for ValueError
NameIndex(group_registers, param) ==
    IF \E k \in 1..Len(group_registers) : group_registers[k].desc = param
    THEN CHOOSE k \in 1..Len(group_registers) :
             /\ group_registers[k].desc = param
             /\ \A j \in 1..(k - 1) : group_registers[j].desc # param
    ELSE 0

\* query_parameter that decodes a zero word when the read failed
QueryParameterDecodesAnyway(regs, group, param, fails, reply, py3) ==
    IF group \notin DOMAIN regs
    THEN [registers |-> regs, ind |-> 0, data |-> None, sent |-> <<>>,
          decoded |-> FALSE, ret |-> "-", exc |-> "KeyError"]
    ELSE IF NameIndex(regs[group], param) = 0
    THEN [registers |-> regs, ind |-> 0, data |-> None, sent |-> <<>>,
          decoded |-> FALSE, ret |-> "None", exc |-> "none"]
    ELSE LET ind == NameIndex(regs[group], param)
             read == ReadRegisters(regs[group][ind].address, regs[group][ind].points, fails, reply)
             words == IF IsNone(read.data)
                      THEN PyList([k \in 1..regs[group][ind].points |-> 0])
                      ELSE read.data
             dec == Decode(regs[group][ind], words.l, py3)
         IN  [registers |-> [regs EXCEPT ![group][ind] = dec.reg], ind |-> ind,
              data |-> read.data, sent |-> read.sent, decoded |-> TRUE,
              ret |-> IF dec.exc = "none" THEN "register" ELSE "-",
              exc |-> dec.exc]

\* query_parameter (lines 226-256).  [registers, ind, data, sent, decoded, ret,
\* exc]: self.registers afterwards, the position found, the words read, the
\* requests sent, whether decode was called, what is returned ("None" or
\* "register", "-" when the call raised) and the exception raised.
QueryParameter(regs, group, param, fails, reply, py3) ==
    IF group \notin DOMAIN regs
    THEN [registers |-> regs, ind |-> 0, data |-> None, sent |-> <<>>,
          decoded |-> FALSE, ret |-> "-", exc |-> "KeyError"]
    ELSE IF NameIndex(regs[group], param) = 0
    THEN [registers |-> regs, ind |-> 0, data |-> None, sent |-> <<>>,
          decoded |-> FALSE, ret |-> "None", exc |-> "none"]
    ELSE LET ind == NameIndex(regs[group], param)
             read == ReadRegisters(regs[group][ind].address, regs[group][ind].points, fails, reply)
         IN  IF IsNone(read.data)
             THEN [registers |-> regs, ind |-> ind, data |-> None, sent |-> read.sent,
                   decoded |-> FALSE, ret |-> "None", exc |-> "none"]
             ELSE LET dec == Decode(regs[group][ind], read.data.l, py3)
                  IN  [registers |-> [regs EXCEPT ![group][ind] = dec.reg], ind |-> ind,
                       data |-> read.data, sent |-> read.sent, decoded |-> TRUE,
                       ret |-> IF dec.exc = "none" THEN "register" ELSE "-",
                       exc |-> dec.exc]

\* One iteration of the inner loop of query_all_parameters (lines 217-223) on
\* the register at `ind` of `group`: [registers, data, sent, decoded, exc].
QueryAllIteration(regs, group, ind, fails, reply, py3) ==
    LET read == ReadRegisters(regs[group][ind].address, regs[group][ind].points, fails, reply)
    IN  IF IsNone(read.data)
        THEN [registers |-> regs, data |-> None, sent |-> read.sent,
              decoded |-> FALSE, exc |-> "none"]
        ELSE LET dec == Decode(regs[group][ind], read.data.l, py3)
             IN  [registers |-> [regs EXCEPT ![group][ind] = dec.reg],
                  data |-> read.data, sent |-> read.sent, decoded |-> TRUE,
                  exc |-> dec.exc]

\* the loop position after <<g, r>>: the next register of the group, else the
\* first register of the next group
NextPos(regs, group_names, p) ==
    IF p[2] < Len(regs[group_names[p[1]]]) THEN <<p[1], p[2] + 1>> ELSE <<p[1] + 1, 1>>

-----------------------------------------------------------------------------
(* The facade polling a device, on register maps drawn from PollTables.    *)

SpeedRow  == Row("40010", "10", "Speed", "RPM", "Integer", "1", "1", "0", "100", "Engine") \o "\r\n"
ModeRow   == Row("40020", "20", "Mode", "-", "List#1", "1", "-", "0", "1", "Engine") \o "\r\n"
StateRow  == Row("40021", "21", "State", "-", "List#1", "1", "1", "-", "-", "Engine") \o "\r\n"
SparseRow == Row("40004", "8236", "BOUT", "", "Binary#2", "1", "-", "-", "-", "Bin outputs") \o "\r\n"
OddRow    == Row("40030", "30", "Odd", "-", "Integer", "3", "-", "-", "-", "Engine") \o "\r\n"
NameRow   == Row("43001", "8637", "Gen-set name", "-", "String0", "1", "-", "-", "-", "Comms settings") \o "\r\n"
ClockRow  == Row("40040", "40", "Clock", "-", "Time", "1", "-", "-", "-", "Comms settings") \o "\r\n"

\* the register tables polled
PollTables ==
    {<<SpeedRow, ModeRow, ExampleLine>>,
     <<StateRow, NameRow, SparseRow>>,
     <<ClockRow, ModeRow, OddRow>>}

\* the custom types of the register maps: type name -> value map
CustomTypes ==
    ("binary1" :> (0 :> "A" @@ 1 :> "B"))
    @@ ("binary2" :> (0 :> "A" @@ 2 :> "C"))
    @@ ("list1" :> (3 :> "Running"))

\* the 16-bit words a device answers with
Words == {2, 3, 65535}

\* the answers to a read of `points` registers: an error response or words
Replies(points) == {None} \cup {PyList(w) : w \in [1..points -> Words]}

\* how many connection attempts fail before the socket opens
ConnectFailures == {0, max_num_tries - 1, max_num_tries}

ParamNames ==
    UNION {{self_registers[g][k].desc : k \in 1..Len(self_registers[g])} :
              g \in DOMAIN self_registers}
    \cup {"Nothing"}

InitPoll ==
    /\ contents \in PollTables
    /\ line_num = 0
    /\ raw = [k \in 1..Len(contents) |-> ParseRegister(contents[k])]
    /\ registers = ReparseMinMaxValues(raw).regs
    /\ self_registers = GroupRegisters(registers, CustomTypes)
    /\ groups = Sorted(DOMAIN self_registers)
    /\ sent = <<>>
    /\ attempted = <<>>
    /\ pos = <<0, 0>>
    /\ last = [op |-> "none"]
    /\ is_py3 \in BOOLEAN
    /\ pc = "idle"
    /\ exc = "none"

PointsOf(group, param) ==
    IF group \in DOMAIN self_registers /\ NameIndex(self_registers[group], param) # 0
    THEN self_registers[group][NameIndex(self_registers[group], param)].points
    ELSE 1

\* a call of query_parameter(group, param)
QueryParameterCall ==
    /\ pc = "idle"
    /\ \E group \in DOMAIN self_registers \cup {"Nowhere"} :
       \E param \in ParamNames :
       \E fails \in ConnectFailures :
       \E reply \in Replies(PointsOf(group, param)) :
       \E r \in {QueryParameter(self_registers, group, param, fails, reply, is_py3)} :
           /\ self_registers' = r.registers
           /\ sent' = r.sent
           /\ exc' = r.exc
           /\ last' = [op |-> "query_parameter", group |-> group, ind |-> r.ind,
                       data |-> r.data, decoded |-> r.decoded, ret |-> r.ret]
    /\ UNCHANGED <<contents, line_num, registers, raw, pc, groups, attempted, pos, is_py3>>

\* query_all_parameters is called: the loops start on the first group
QueryAllParametersBegin ==
    /\ pc = "idle"
    /\ groups # <<>>
    /\ pc' = "polling"
    /\ pos' = <<1, 1>>
    /\ attempted' = <<>>
    /\ exc' = "none"
    /\ last' = [op |-> "query_all_parameters", group |-> "", ind |-> 0,
                data |-> None, decoded |-> FALSE, ret |-> "-"]
    /\ UNCHANGED <<contents, line_num, registers, raw, self_registers, groups, sent, is_py3>>

\* one iteration of query_all_parameters; an exception ends the call
QueryAllParametersStep ==
    /\ pc = "polling"
    /\ \E fails \in ConnectFailures :
       \E reply \in Replies(self_registers[groups[pos[1]]][pos[2]].points) :
       \E r \in {QueryAllIteration(self_registers, groups[pos[1]], pos[2], fails, reply, is_py3)} :
           /\ self_registers' = r.registers
           /\ sent' = r.sent
           /\ exc' = r.exc
           /\ attempted' = Append(attempted, <<groups[pos[1]], pos[2]>>)
           /\ last' = [op |-> "query_all_parameters", group |-> groups[pos[1]], ind |-> pos[2],
                       data |-> r.data, decoded |-> r.decoded, ret |-> "-"]
           /\ IF r.exc # "none" \/ NextPos(self_registers, groups, pos)[1] > Len(groups)
              THEN pc' = "idle" /\ pos' = <<0, 0>>
              ELSE pc' = "polling" /\ pos' = NextPos(self_registers, groups, pos)
    /\ UNCHANGED <<contents, line_num, registers, raw, groups, is_py3>>

\* a call of validate() on one register
ValidateCall ==
    /\ pc = "idle"
    /\ \E group \in DOMAIN self_registers :
       \E ind \in 1..Len(self_registers[group]) :
       \E result \in {Validate(self_registers[group][ind], is_py3)} :
           /\ exc' = IF result = "TypeError" THEN "TypeError" ELSE "none"
           /\ last' = [op |-> "validate", group |-> group, ind |-> ind,
                       data |-> None, decoded |-> FALSE,
                       ret |-> IF result = "TypeError" THEN "-" ELSE result]
    /\ UNCHANGED <<contents, line_num, registers, raw, pc, self_registers, groups,
                   sent, attempted, pos, is_py3>>

NextPoll ==
    QueryParameterCall \/ QueryAllParametersBegin \/ QueryAllParametersStep \/ ValidateCall

SpecPoll == InitPoll /\ [][NextPoll]_vars

-----------------------------------------------------------------------------
(* Claims about reparse_min_max_values, checked under SpecResolve.         *)

Sides == {"min", "max"}
IsIndirection(bound) == IsStr(bound) /\ StrIn("*", bound.s)
Referenced(bound) == IntOf(StrRemove(bound.s, "*"))
IsFirstMatch(j, n) ==
    /\ j \in 1..Len(raw)
    /\ raw[j].comm_obj = n
    /\ \A k \in 1..(j - 1) : raw[k].comm_obj # n

\* C1: when reparse_min_max_values returns, a bound whose raw token was "*N"
\* equals the same-side bound of the first descriptor in scan order with
\* comm_obj = N (the integer of that descriptor's literal, absent if that
\* bound is absent), and is absent when no descriptor has comm_obj = N.
C1_IndirectedBound ==
    pc = "types" =>
        \A i \in 1..Len(raw) : \A side \in Sides :
            IsIndirection(raw[i][side]) =>
                /\ (\A j \in 1..Len(raw) : raw[j].comm_obj # Referenced(raw[i][side]))
                       => IsNone(registers[i][side])
                /\ \A j \in 1..Len(raw) :
                       IsFirstMatch(j, Referenced(raw[i][side])) =>
                           /\ registers[i][side] = registers[j][side]
                           /\ IsNone(raw[j][side]) => IsNone(registers[i][side])
                           /\ (IsStr(raw[j][side]) /\ ~IsIndirection(raw[j][side]))
                                  => registers[i][side] = PyInt(IntOf(raw[j][side].s))

\* a max "*1" resolved to the 7 of the first descriptor with comm_obj 1, whose
\* min is something else, next to a max "*2" that matches no descriptor
C1_Witness ==
    /\ pc = "types"
    /\ \E i, j, k \in 1..Len(raw) :
           /\ i # j
           /\ raw[i].max = PyStr("*1")
           /\ IsFirstMatch(j, 1)
           /\ raw[j].max = PyStr("7")
           /\ raw[j].min = PyStr("3")
           /\ registers[i].max = PyInt(7)
           /\ raw[k].max = PyStr("*2")
           /\ IsNone(registers[k].max)

WellFormedBound(bound) ==
    \/ IsNone(bound)
    \/ IsStr(bound) /\ ~IntRaises(bound.s)
    \/ IsIndirection(bound) /\ ~IntRaises(StrRemove(bound.s, "*"))

\* C2: for descriptors whose raw bounds are absent, integer literals or "*N"
\* tokens, reparse_min_max_values completes without raising and leaves every
\* min and max absent or an integer.
C2_NeverAborts ==
    (pc # "reparse" /\ \A i \in 1..Len(raw) : \A side \in Sides : WellFormedBound(raw[i][side]))
        => /\ pc = "types"
           /\ \A i \in 1..Len(registers) : \A side \in Sides :
                  IsNone(registers[i][side]) \/ IsInt(registers[i][side])

-----------------------------------------------------------------------------
(* Claims about the register table of parse, checked under SpecScan.       *)

\* a line that is "\n" once its carriage returns are removed
BlankAfterCR(line) ==
    /\ \A i \in 1..Len(line) : Char(line, i) \in {"\r", "\n"}
    /\ Cardinality({i \in 1..Len(line) : Char(line, i) = "\n"}) = 1

\* C3: when the register-table loop of parse ends, it has produced exactly
\* one descriptor per line, in order, for the lines from index 2 up to but
\* not including the first blank line; lines after that blank line
\* contribute nothing.
C3_TableBoundary ==
    pc \in {"reparse", "types"} =>
        \E b \in 2..(Len(contents) - 1) :
            /\ BlankAfterCR(contents[b + 1])
            /\ \A k \in 2..(b - 1) : ~BlankAfterCR(contents[k + 1])
            /\ line_num = b
            /\ Len(raw) = b - 2
            /\ \A k \in 2..(b - 1) : raw[k - 1] = ParseRegister(contents[k + 1])

\* the table ended on a blank line with a descriptor collected before it
\* and a well-formed register row after it
C3_Witness ==
    /\ pc = "reparse"
    /\ Len(raw) >= 1
    /\ \E k \in (line_num + 1)..(Len(contents) - 1) :
           /\ ~BlankAfterCR(contents[k + 1])
           /\ ~ParseRegisterRaises(contents[k + 1])

-----------------------------------------------------------------------------
(* Claims about Register.decode, Register.validate and the facade,         *)
(* checked under SpecPoll.                                                 *)

\* the last call ran Register.decode, on LastRegister with LastWord first
DecodeRan == last.op \in {"query_parameter", "query_all_parameters"} /\ last.decoded
LastRegister == self_registers[last.group][last.ind]
LastWord == last.data.l[1]

HasTypemap(reg, kind) == ~IsNone(reg.typemap) /\ StrIn(kind, reg.datatype)

BitOf(w, i) == (w \div (2 ^ i)) % 2

\* "<M[i]>: <bit i of w>" for the bit indices i of M in increasing order,
\* joined by ", "
RECURSIVE BitfieldLine(_, _, _)
BitfieldLine(M, keys, w) ==
    IF keys = {} THEN ""
    ELSE LET i == CHOOSE k \in keys : \A x \in keys : k <= x
         IN  M[i] \o ": " \o (IF BitOf(w, i) = 1 THEN "1" ELSE "0")
             \o (IF keys = {i} THEN "" ELSE ", " \o BitfieldLine(M, keys \ {i}, w))

\* C4: after decode of a descriptor with a binary-kind custom type M and raw
\* word w, the stored value is the line of "<M[i]>: <bit i of w>" over the
\* bit indices present in M, for every key set of M within 0..15.
C4_BitfieldOverlay ==
    (DecodeRan /\ HasTypemap(LastRegister, "binary")) =>
        LastRegister.value
            = PyStr(BitfieldLine(LastRegister.typemap.m, DOMAIN LastRegister.typemap.m, LastWord))

\* C5: a decode step of a descriptor with a list-kind custom type M and raw
\* word k stores exactly "<k>: <M[k]>" when k is a key of M; when it is not,
\* the call raises KeyError, returns nothing and leaves every stored value as
\* it was.
C5_ListOverlay ==
    [][(last'.op \in {"query_parameter", "query_all_parameters"} /\ last'.decoded
        /\ HasTypemap(self_registers[last'.group][last'.ind], "list"))
       => LET M == self_registers[last'.group][last'.ind].typemap.m
              k == last'.data.l[1]
          IN  IF k \in DOMAIN M
              THEN /\ self_registers'[last'.group][last'.ind].value
                          = PyStr(IntToStr(k) \o ": " \o M[k])
                   /\ (k = 3 /\ M[k] = "Running")
                          => self_registers'[last'.group][last'.ind].value = PyStr("3: Running")
              ELSE /\ exc' = "KeyError"
                   /\ last'.ret # "register"
                   /\ self_registers' = self_registers]_vars

\* a key missing from the value map raised KeyError, and the value of an
\* earlier decode is still stored
C5_Witness ==
    /\ DecodeRan
    /\ HasTypemap(LastRegister, "list")
    /\ LastWord \notin DOMAIN LastRegister.typemap.m
    /\ exc = "KeyError"
    /\ LastRegister.value = PyStr("3: Running")

\* C6: when the descriptor declares decimals and decode produced a
\* non-numeric value (text, a sequence, a labelled line), nothing is
\* multiplied: decode does not fail and the value is stored as produced.
C6_ScalingOnlyNumeric ==
    (/\ DecodeRan
     /\ ~IsNone(LastRegister.scaler)
     /\ exc \in {"none", "TypeError"}
     /\ ~IsNone(LastRegister.value)
     /\ ~IsNumber(LastRegister.value))
        => exc = "none"

IsListFamily(reg) == StrIn("list", reg.datatype)

\* C7 as stated: validate of a list-family descriptor is always "not
\* applicable", the outcome it has when no value has been decoded.
C7_ListNotApplicable ==
    (last.op = "validate" /\ IsListFamily(LastRegister)) => last.ret = "None"

\* C7 as amended: validate of a list-family descriptor never fails and never
\* raises, whatever the stored value and the declared min and max: it is "not
\* applicable" (None) while no value is stored and passes (True) once one is.
C7_ListNeverFails ==
    (last.op = "validate" /\ IsListFamily(LastRegister)) =>
        /\ exc = "none"
        /\ last.ret = IF IsNone(LastRegister.value) THEN "None" ELSE "True"

\* validate passed a list-family descriptor that holds a label and declares
\* both bounds
C7_Witness ==
    /\ last.op = "validate"
    /\ IsListFamily(LastRegister)
    /\ IsStr(LastRegister.value)
    /\ ~IsNone(LastRegister.min)
    /\ ~IsNone(LastRegister.max)
    /\ last.ret = "True"

\* (datatype, points) matches none of the decode rules
Unrecognized(reg) ==
    /\ reg.datatype \notin {"String0", "Char", "Binary", "Time", "Date"}
    /\ ~(reg.datatype \in {"Integer", "Unsigned"} /\ reg.points \in {1, 2, 4})

\* C8: decode of a descriptor without custom type whose (datatype, points)
\* matches no rule reports an unsupported-datatype condition to the caller
\* and stores no value.
C8_UnsupportedSurfaced ==
    (DecodeRan /\ IsNone(LastRegister.typemap) /\ Unrecognized(LastRegister)) =>
        /\ exc = "UnsupportedDatatype"
        /\ IsNone(LastRegister.value)

\* C9: a query_parameter call whose read fails returns None without calling
\* decode and leaves every register (value, bounds, scaler, typemap) as it
\* was.
C9_TransportFailure ==
    [][(last'.op = "query_parameter" /\ last'.ind # 0 /\ IsNone(last'.data))
       => /\ self_registers' = self_registers
          /\ last'.ret = "None"
          /\ ~last'.decoded
          /\ exc' = "none"]_vars

\* a read failed on a register that still holds the value of an earlier poll
C9_Witness ==
    /\ last.op = "query_parameter"
    /\ last.ind # 0
    /\ IsNone(last.data)
    /\ last.ret = "None"
    /\ ~IsNone(LastRegister.value)

\* every descriptor, groups in sorted order and scan order within a group
RECURSIVE PollOrder(_)
PollOrder(g) ==
    IF g > Len(groups) THEN <<>>
    ELSE [k \in 1..Len(self_registers[groups[g]]) |-> <<groups[g], k>>] \o PollOrder(g + 1)

\* C10: when query_all_parameters ends, every descriptor has been attempted
\* exactly once, in poll order, whatever happened to the earlier ones.
C10_BatchNeverHalts ==
    (last.op = "query_all_parameters" /\ pc = "idle") => attempted = PollOrder(1)

-----------------------------------------------------------------------------
(* Claims about the requests of read_registers, checked under SpecPoll.    *)

\* C11 as stated: no call of query_parameter or query_all_parameters ever
\* sends a write-register request; the only requests are register reads.
C11_NoWrites ==
    \A i \in 1..Len(sent) : sent[i].fn = "read_holding_registers"

\* C11 as amended: the only write a call sends is the access code, value 0 to
\* register 46339 (address 6338), once and immediately before the one read
\* of the polled descriptor's address and point count; nothing is sent when
\* the socket never opens.
C11_OnlyAccessCodeWrite ==
    \/ sent = <<>>
    \/ /\ Len(sent) = 2
       /\ sent[1] = [fn |-> "write_register", address |-> 6338, arg |-> 0]
       /\ sent[2].fn = "read_holding_registers"
       /\ \E g \in DOMAIN self_registers : \E k \in 1..Len(self_registers[g]) :
              /\ sent[2].address = self_registers[g][k].register - 40001
              /\ sent[2].arg = self_registers[g][k].points

\* a poll of a descriptor went onto the wire and was answered with words
C11_Witness ==
    /\ DecodeRan
    /\ Len(sent) = 2
    /\ sent[1].fn = "write_register"
    /\ sent[2] = [fn |-> "read_holding_registers", address |-> LastRegister.address,
                  arg |-> LastRegister.points]

-----------------------------------------------------------------------------
(* Claims about rows that are not register rows, checked under SpecScan.   *)

\* a non-blank line whose comm-object or point-count column is no integer
NotARegisterRow(line) ==
    /\ ~BlankAfterCR(line)
    /\ \/ IntRaises(Column(line, 17, 26))
       \/ IntRaises(Column(line, 57, 61))

\* C12: when the scan of the register table stops on a non-blank line whose
\* comm-object or point-count field is not an integer, it stops without an
\* error: the table ends there, the descriptors of the lines before it are
\* kept, one per line, and the line itself yields none.
C12_BadRowEndsTable ==
    (/\ pc # "scan"
     /\ line_num < Len(contents)
     /\ NotARegisterRow(contents[line_num + 1]))
        => /\ pc \in {"reparse", "types"}
           /\ exc = "none"
           /\ Len(raw) = line_num - 2
           /\ \A k \in 2..(line_num - 1) : raw[k - 1] = ParseRegister(contents[k + 1])

-----------------------------------------------------------------------------
(* Claims about the datatype names, checked under SpecPoll.                *)

HasUpper(s) == \E i \in 1..Len(s) : \E u \in 1..Len(Uppers) : Char(s, i) = Char(Uppers, u)
HasHash(s) == \E i \in 1..Len(s) : Char(s, i) = "#"

\* the datatype column of the k-th line of the register table
DatatypeField(k) == Strip(SubSeq(contents[k], 47, 57))

\* the names of the decode rules of Register.decode
RuleNames == {"Integer", "Unsigned", "String0", "Char", "Binary", "Time", "Date"}

\* C13 as stated: every descriptor of the scanner has a datatype without '#'
\* and without an uppercase letter, whether or not its source field carried a
\* '#' marker.
C13_AllLowercase ==
    \A k \in 1..Len(registers) :
        ~HasHash(registers[k].datatype) /\ ~HasUpper(registers[k].datatype)

\* C13 as amended: every descriptor's datatype contains no '#'; a source
\* field carrying '#' is lowercased with the marker removed ("Binary#1"
\* becomes "binary1"), a field without '#' is kept as written ("Integer"
\* stays "Integer"), and a decode without custom type that stores a value
\* dispatched on one of the capitalised rule names.
C13_LowercaseOnlyWithMarker ==
    /\ \A k \in 1..Len(registers) :
           /\ ~HasHash(registers[k].datatype)
           /\ HasHash(DatatypeField(k)) => ~HasUpper(registers[k].datatype)
           /\ ~HasHash(DatatypeField(k)) => registers[k].datatype = DatatypeField(k)
           /\ DatatypeField(k) = "Binary#1" => registers[k].datatype = "binary1"
           /\ DatatypeField(k) = "Integer" => registers[k].datatype = "Integer"
    /\ (DecodeRan /\ IsNone(LastRegister.typemap) /\ exc = "none")
           => LastRegister.datatype \in RuleNames

\* an "Integer" descriptor decoded a number, in a table that also holds a
\* descriptor scanned from "Binary#1"
C13_Witness ==
    /\ DecodeRan
    /\ exc = "none"
    /\ LastRegister.datatype = "Integer"
    /\ IsNumber(LastRegister.value)
    /\ \E k \in 1..Len(registers) :
           DatatypeField(k) = "Binary#1" /\ registers[k].datatype = "binary1"

====
